---- MODULE Spec2Model ----
(***************************************************************************)
(* A model of AnniesLasso/vectorizer/polynomial.py: the structured label   *)
(* vector validator, the description parser, the label vector builder and  *)
(* PolynomialVectorizer.get_label_vector.                                  *)
(*                                                                         *)
(* Python values are records [t, n, s, items]: t is the Python type, n the *)
(* numeric value, s the characters of a str (or the name of a non-finite   *)
(* float), items the elements of a list or tuple.  A str is a sequence of  *)
(* one-character strings, so that split, strip and float act on            *)
(* characters as the code's calls do.                                      *)
(***************************************************************************)
EXTENDS Integers, Sequences, FiniteSets

VARIABLES
    pc,             \* position of the caller in the scenario being run
    description,    \* parse_label_vector_description: `description`
    columns,        \* parse_label_vector_description: `columns`
    structured,     \* what _is_structured_label_vector(description) returned
    parsed,         \* outcome of parse_label_vector_description(description)
    reparsed,       \* outcome of parsing the returned vector once more
    build_args,     \* build_label_vector: labels, order, cross_term_order
    built,          \* outcome of build_label_vector
    self,           \* PolynomialVectorizer: labels, fiducials, scales, terms,
                    \* _parsed_terms
    labels_in,      \* get_label_vector: `labels`
    label_vector    \* outcome of get_label_vector

vars == <<pc, description, columns, structured, parsed, reparsed,
          build_args, built, self, labels_in, label_vector>>

-----------------------------------------------------------------------------
(* Python values *)

PyNone == [t |-> "NoneType", n |-> 0, s |-> <<>>, items |-> <<>>]

PyInt(k) == [t |-> "int", n |-> k, s |-> <<>>, items |-> <<>>]

PyFloat(k) == [t |-> "float", n |-> k, s |-> <<>>, items |-> <<>>]

PyNaN == [t |-> "float", n |-> 0, s |-> <<"n", "a", "n">>, items |-> <<>>]

PyInf(sign) == [t |-> "float", n |-> sign, s |-> <<"i", "n", "f">>, items |-> <<>>]

PyStr(chars) == [t |-> "str", n |-> 0, s |-> chars, items |-> <<>>]

PyList(xs) == [t |-> "list", n |-> 0, s |-> <<>>, items |-> xs]

PyTuple(xs) == [t |-> "tuple", n |-> 0, s |-> <<>>, items |-> xs]

\* isinstance(x, (list, tuple))
IsListOrTuple(x) == x.t \in {"list", "tuple"}

\* The test with float left out: isinstance(x, int)
IsIntOnly(x) == x.t = "int"

\* isinstance(x, (int, float))
IsIntOrFloat(x) == x.t \in {"int", "float"}

\* np.isfinite(x) for a number x
IsFinite(x) == x.s = <<>>

\* x != 0 for a number x (nan and the infinities differ from 0)
NotZero(x) == x.s # <<>> \/ x.n # 0

\* A repeated label overwrites the power it had: term[label] = order
OverwritePower(x, y) == y

\* x + y for numbers: int + int is an int, anything with a float is a float;
\* nan absorbs, inf + -inf is nan, inf + finite is inf.
PyAdd(x, y) ==
    IF x.s = <<"n", "a", "n">> \/ y.s = <<"n", "a", "n">> THEN PyNaN
    ELSE IF x.s # <<>> /\ y.s # <<>> THEN (IF x.n = y.n THEN x ELSE PyNaN)
    ELSE IF x.s # <<>> THEN x
    ELSE IF y.s # <<>> THEN y
    ELSE IF x.t = "int" /\ y.t = "int" THEN PyInt(x.n + y.n)
    ELSE PyFloat(x.n + y.n)

\* What a call does: return a value (exc = "") or raise exc with message msg.
Return(v) == [exc |-> "", msg |-> "", value |-> v]

Raise(e, m) == [exc |-> e, msg |-> m, value |-> PyNone]

NotCalled == [exc |-> "", msg |-> "not called", value |-> PyNone]

-----------------------------------------------------------------------------
(* str methods *)

Whitespace == {" "}

RECURSIVE LStrip(_)
LStrip(s) ==
    IF s # <<>> /\ Head(s) \in Whitespace THEN LStrip(Tail(s)) ELSE s

RECURSIVE RStrip(_)
RStrip(s) ==
    IF s # <<>> /\ s[Len(s)] \in Whitespace
    THEN RStrip(SubSeq(s, 1, Len(s) - 1)) ELSE s

\* s.strip()
Strip(s) == RStrip(LStrip(s))

\* c in s, for a one-character c
Contains(s, c) == \E i \in 1..Len(s) : s[i] = c

\* s.split(c), for a one-character c: the pieces between the occurrences of c
RECURSIVE SplitAcc(_, _, _, _)
SplitAcc(s, c, piece, pieces) ==
    IF s = <<>> THEN Append(pieces, piece)
    ELSE IF Head(s) = c THEN SplitAcc(Tail(s), c, <<>>, Append(pieces, piece))
    ELSE SplitAcc(Tail(s), c, Append(piece, Head(s)), pieces)

Split(s, c) == SplitAcc(s, c, <<>>, <<>>)

\* c.join(pieces)
RECURSIVE Join(_, _)
Join(pieces, c) ==
    IF pieces = <<>> THEN <<>>
    ELSE IF Len(pieces) = 1 THEN pieces[1]
    ELSE pieces[1] \o c \o Join(Tail(pieces), c)

Digits == <<"0", "1", "2", "3", "4", "5", "6", "7", "8", "9">>

IsDigit(c) == \E d \in 1..10 : Digits[d] = c

DigitValue(c) == (CHOOSE d \in 1..10 : Digits[d] = c) - 1

RECURSIVE DecimalValue(_)
DecimalValue(s) ==
    IF s = <<>> THEN 0
    ELSE 10 * DecimalValue(SubSeq(s, 1, Len(s) - 1)) + DigitValue(s[Len(s)])

\* float(s) for the literals the model writes: an optional sign followed by
\* decimal digits, "nan" or "inf", with surrounding whitespace ignored.
\* Anything else raises ValueError.
PyFloatOf(s) ==
    LET t == Strip(s)
        signed == t # <<>> /\ Head(t) \in {"-", "+"}
        sign == IF signed /\ Head(t) = "-" THEN -1 ELSE 1
        body == IF signed THEN Tail(t) ELSE t
    IN  IF body = <<"n", "a", "n">> THEN Return(PyNaN)
        ELSE IF body = <<"i", "n", "f">> THEN Return(PyInf(sign))
        ELSE IF body # <<>> /\ \A i \in 1..Len(body) : IsDigit(body[i])
             THEN Return(PyFloat(sign * DecimalValue(body)))
        ELSE Raise("ValueError", "could not convert string to float")

-----------------------------------------------------------------------------
(* _is_structured_label_vector *)

\* sum(map(len, label_vector))
RECURSIVE SumLen(_)
SumLen(xs) == IF xs = <<>> THEN 0 ELSE Len(Head(xs).items) + SumLen(Tail(xs))

\* The test of one element of a descriptor: a list or tuple of length 2 whose
\* last element is an int or a float.
IsPair(term) ==
    /\ IsListOrTuple(term)
    /\ Len(term.items) = 2
    /\ IsIntOrFloat(term.items[2])

is_structured_label_vector(lv) ==
    IF ~IsListOrTuple(lv) THEN FALSE
    ELSE IF \E i \in 1..Len(lv.items) :
                \/ ~IsListOrTuple(lv.items[i])
                \/ \E j \in 1..Len(lv.items[i].items) : ~IsPair(lv.items[i].items[j])
         THEN FALSE
    ELSE IF Len(lv.items) = 0 \/ SumLen(lv.items) = 0 THEN FALSE
    ELSE TRUE

-----------------------------------------------------------------------------
(* parse_label_vector_description *)

\* The default operators: dict(zip(("sep", "mul", "pow"), "+*^")).  The
\* overrides that kwargs may carry are not varied.
sep == "+"

mul == "*"

pow == "^"

\* get_power: float(t.split(pow)[1].strip()) if pow in t else 1
get_power(t) ==
    IF Contains(t, pow) THEN PyFloatOf(Strip(Split(t, pow)[2]))
    ELSE Return(PyInt(1))

\* The position counted from 1
ListIndexFromOne(xs, v) ==
    IF \E i \in 1..Len(xs.items) : xs.items[i] = v
    THEN Return(PyInt(CHOOSE i \in 1..Len(xs.items) :
                          /\ xs.items[i] = v
                          /\ \A j \in 1..(i - 1) : xs.items[j] # v))
    ELSE Raise("ValueError", "is not in list")

\* list(xs).index(v): the 0-based position of the first element equal to v
ListIndex(xs, v) ==
    IF \E i \in 1..Len(xs.items) : xs.items[i] = v
    THEN Return(PyInt((CHOOSE i \in 1..Len(xs.items) :
                          /\ xs.items[i] = v
                          /\ \A j \in 1..(i - 1) : xs.items[j] # v) - 1))
    ELSE Raise("ValueError", "is not in list")

\* get_label: the trimmed token before pow, or its position in columns
get_label(d, cols) ==
    LET token == PyStr(Strip(Split(d, pow)[1]))
    IN  IF cols = PyNone THEN Return(token) ELSE ListIndex(cols, token)

\* An OrderedDict is the sequence of its (key, value) items in insertion order.
OrderedDict(kvs) == [t |-> "OrderedDict", n |-> 0, s |-> <<>>, items |-> kvs]

HasKey(d, k) == \E i \in 1..Len(d.items) : d.items[i].items[1] = k

\* d.get(k, default)
DictGet(d, k, default) ==
    IF HasKey(d, k)
    THEN d.items[CHOOSE i \in 1..Len(d.items) : d.items[i].items[1] = k].items[2]
    ELSE default

\* d[k] = v: an existing key keeps its place, a new key goes last.
DictSet(d, k, v) ==
    IF HasKey(d, k)
    THEN OrderedDict([i \in 1..Len(d.items) |->
            IF d.items[i].items[1] = k THEN PyTuple(<<k, v>>) ELSE d.items[i]])
    ELSE OrderedDict(Append(d.items, PyTuple(<<k, v>>)))

\* The loop over zip(labels, orders): the maps are lazy, so each factor's label
\* is resolved, then its power, before the next factor is looked at.
RECURSIVE SumRepeatPowers(_, _, _)
SumRepeatPowers(descriptor, cols, term) ==
    IF descriptor = <<>> THEN Return(term)
    ELSE LET label == get_label(Head(descriptor), cols)
             order == get_power(Head(descriptor))
         IN  IF label.exc # "" THEN label
             ELSE IF order.exc # "" THEN order
             ELSE SumRepeatPowers(Tail(descriptor), cols,
                     DictSet(term, label.value,
                             PyAdd(DictGet(term, label.value, PyInt(0)), order.value)))

\* The factors of power zero are kept: list(term.items())
KeepZeroPowers(term) == term.items

\* [(l, o) for l, o in term.items() if o != 0]
ValidTerms(term) == SelectSeq(term.items, LAMBDA kv : NotZero(kv.items[2]))

\* The loop over the descriptors and the final check.
RECURSIVE ParseDescriptors(_, _, _)
ParseDescriptors(items, cols, lv) ==
    IF items = <<>>
    THEN IF SumLen(lv) = 0 THEN Raise("ValueError", "no valid terms provided")
         ELSE Return(PyList(lv))
    ELSE LET term == SumRepeatPowers(Split(Head(items), mul), cols, OrderedDict(<<>>))
         IN  IF term.exc # "" THEN term
             ELSE LET valid_terms == ValidTerms(term.value)
                  IN  IF \E i \in 1..Len(valid_terms) : ~IsFinite(valid_terms[i].items[2])
                      THEN Raise("ValueError", "non-finite power provided")
                      ELSE ParseDescriptors(Tail(items), cols,
                              IF Len(valid_terms) > 0
                              THEN Append(lv, PyList(valid_terms)) ELSE lv)

\* [_.strip() for _ in description]
StripAll(strs) == [i \in 1..Len(strs) |-> Strip(strs[i])]

parse_label_vector_description(d, cols) ==
    IF is_structured_label_vector(d) THEN Return(d)
    ELSE IF d.t = "str"
         THEN ParseDescriptors(StripAll(Split(d.s, sep)), cols, <<>>)
    ELSE IF IsListOrTuple(d)
         THEN IF \E i \in 1..Len(d.items) : d.items[i].t # "str"
              THEN Raise("AttributeError", "object has no attribute 'strip'")
              ELSE ParseDescriptors(
                       StripAll([i \in 1..Len(d.items) |-> d.items[i].s]), cols, <<>>)
    ELSE Raise("TypeError", "object is not iterable")

-----------------------------------------------------------------------------
(* The descriptions the parser is called with *)

Teff == <<"T", "e", "f", "f">>

logg == <<"l", "o", "g", "g">>

feh == <<"f", "e", "h">>

bogus == <<"b", "o", "g", "u", "s">>

\* The factors a description is written with: plain and padded labels, powers
\* that are zero, positive, negative, not finite or missing, and a label that
\* is in no list of columns.
FactorStrings ==
    { <<" ">> \o logg \o <<" ">>,
      logg \o <<" ", "^", " ", "-", "1">>,
      feh \o <<"^", "0">>,
      feh \o <<"^", "2">>,
      Teff \o <<"^", "2">>,
      bogus \o <<"^", "2">>,
      feh \o <<"^", "n", "a", "n">>,
      Teff \o <<"^">> }

\* The most factors in one description.
MaxFactors == 3

\* fs[1] ops[1] fs[2] ops[2] ... : the factors joined by the given operators
RECURSIVE Glue(_, _)
Glue(fs, ops) ==
    IF Len(fs) = 1 THEN fs[1]
    ELSE fs[1] \o <<ops[1]>> \o Glue(Tail(fs), Tail(ops))

\* The same description given as a sequence of per-term strings.
AsTermList(str) ==
    LET terms == Split(str, sep)
    IN  PyList([i \in 1..Len(terms) |-> PyStr(terms[i])])

\* Vectors given in structured form (taken by the fast path), and values
\* that are neither text nor structured.
StructuredInputs ==
    { PyList(<<PyList(<<PyTuple(<<PyStr(Teff), PyInt(1)>>)>>)>>),
      PyList(<<PyList(<<PyTuple(<<PyInt(1), PyFloat(2)>>),
                        PyTuple(<<PyInt(0), PyInt(3)>>)>>)>>),
      PyTuple(<<PyTuple(<<PyTuple(<<PyStr(feh), PyInt(1)>>)>>),
                PyList(<<PyList(<<PyStr(Teff), PyFloat(-1)>>)>>)>>),
      PyList(<<PyList(<<PyTuple(<<PyStr(feh), PyInt(0)>>)>>)>>),
      PyList(<<PyList(<<>>), PyList(<<PyTuple(<<PyStr(Teff), PyInt(1)>>)>>)>>),
      PyList(<<PyList(<<PyTuple(<<PyStr(Teff), PyNaN>>)>>)>>),
      PyList(<<PyList(<<>>)>>),
      PyList(<<>>),
      PyTuple(<<PyStr(Teff \o <<"^", "2">>), PyStr(logg)>>),
      PyList(<<PyList(<<PyTuple(<<PyStr(Teff), PyStr(<<"2">>)>>)>>)>>),
      PyList(<<PyStr(Teff), PyInt(2)>>),
      PyInt(2) }

Columns == PyList(<<PyStr(Teff), PyStr(logg), PyStr(feh)>>)

-----------------------------------------------------------------------------
(* Spec: calls of parse_label_vector_description *)

NoBuildArgs == [labels |-> <<>>, order |-> 0, cross_term_order |-> 0]

NoVectorizer ==
    [labels |-> PyNone, fiducials |-> <<>>, scales |-> <<>>, terms |-> PyNone,
     parsed_terms |-> NotCalled]

NoArray == [ndim |-> 0, shape |-> <<>>, data |-> <<>>]

Init ==
    /\ pc = "start"
    /\ \/ \E n \in 1..MaxFactors :
          \E fs \in [1..n -> FactorStrings] :
          \E ops \in [1..(n - 1) -> {sep, mul}] :
             description \in {PyStr(Glue(fs, ops)), AsTermList(Glue(fs, ops))}
       \/ description \in StructuredInputs
    /\ columns \in {PyNone, Columns}
    /\ structured = FALSE
    /\ parsed = NotCalled
    /\ reparsed = NotCalled
    /\ build_args = NoBuildArgs
    /\ built = NotCalled
    /\ self = NoVectorizer
    /\ labels_in = NoArray
    /\ label_vector = NotCalled

\* parse_label_vector_description(description, columns=columns)
Parse ==
    /\ pc = "start"
    /\ parsed' = parse_label_vector_description(description, columns)
    /\ pc' = "parsed"
    /\ UNCHANGED <<description, columns, structured, reparsed, build_args, built,
                   self, labels_in, label_vector>>

\* The vector that was returned is parsed again, with the same columns.
Reparse ==
    /\ pc = "parsed"
    /\ parsed.exc = ""
    /\ reparsed' = parse_label_vector_description(parsed.value, columns)
    /\ pc' = "reparsed"
    /\ UNCHANGED <<description, columns, structured, parsed, build_args, built,
                   self, labels_in, label_vector>>

Next == Parse \/ Reparse

Spec == Init /\ [][Next]_vars

-----------------------------------------------------------------------------
(* What the claims say about a description, read off its text *)

\* The description was given as text: one string, or a sequence of strings.
IsText(d) ==
    \/ d.t = "str"
    \/ /\ IsListOrTuple(d)
       /\ ~is_structured_label_vector(d)
       /\ \A i \in 1..Len(d.items) : d.items[i].t = "str"

\* The products of a text description.
Products(d) ==
    IF d.t = "str" THEN Split(d.s, sep)
    ELSE [i \in 1..Len(d.items) |-> d.items[i].s]

\* How a factor reads: its trimmed label token, whether columns names it, the
\* label it stands for (the token, or the token's place in columns), and the
\* power it is written with (1 without a power operator): whether that
\* converts to a number, whether the number is finite, and its value.
Reading(f) ==
    LET parts == Split(f, pow)
        token == Strip(parts[1])
        known == columns = PyNone
                    \/ \E k \in 1..Len(columns.items) : columns.items[k].s = token
        power == IF Len(parts) > 1 THEN PyFloatOf(parts[2]) ELSE Return(PyInt(1))
    IN  [ token |-> token,
          known |-> known,
          label |-> IF columns = PyNone THEN PyStr(token)
                    ELSE IF known
                    THEN PyInt((CHOOSE k \in 1..Len(columns.items) :
                                   columns.items[k].s = token) - 1)
                    ELSE PyNone,
          converts |-> power.exc = "",
          finite |-> power.exc = "" /\ power.value.s = <<>>,
          power |-> power.value.n ]

\* The readings of the factors of every product of a text description.
Readings(d) ==
    LET ps == Products(d)
    IN  [i \in 1..Len(ps) |->
            LET fs == Split(ps[i], mul)
            IN  [j \in 1..Len(fs) |-> Reading(fs[j])]]

RECURSIVE SumPowers(_, _)
SumPowers(rs, l) ==
    IF rs = <<>> THEN 0
    ELSE (IF Head(rs).label = l THEN Head(rs).power ELSE 0) + SumPowers(Tail(rs), l)

\* Every factor names a known label and a finite power.
WellFormed(tab) ==
    \A i \in 1..Len(tab) : \A j \in 1..Len(tab[i]) : tab[i][j].known /\ tab[i][j].finite

\* The labels of a product whose powers do not sum to zero.
Kept(rs) == { l \in { rs[j].label : j \in 1..Len(rs) } : SumPowers(rs, l) # 0 }

\* The products that keep a label, in the order of the description.
Retained(tab) == SelectSeq(tab, LAMBDA rs : Kept(rs) # {})

FirstSeen(rs, l) == CHOOSE j \in 1..Len(rs) :
    rs[j].label = l /\ \A k \in 1..(j - 1) : rs[k].label # l

Returned == pc \in {"parsed", "reparsed"} /\ parsed.exc = ""

-----------------------------------------------------------------------------
(* Claims about parse_label_vector_description *)

\* C1: whenever the parser returns a vector, that vector satisfies
\* _is_structured_label_vector, and parsing it again returns the same vector.
C1_ParseIdempotent ==
    /\ Returned => is_structured_label_vector(parsed.value)
    /\ pc = "reparsed" => reparsed = parsed

\* A description written as a string with powers resolves against columns and
\* the vector it gives has been parsed once more.
C1_Witness ==
    /\ pc = "reparsed"
    /\ description.t = "str"
    /\ columns # PyNone
    /\ Len(parsed.value.items) = 2
    /\ \E i \in 1..2 : \E j \in 1..Len(parsed.value.items[i].items) :
           parsed.value.items[i].items[j].items[2].t = "float"

LabelsArePositions(tab, out) ==
    LET kept == Retained(tab)
    IN  \A i \in 1..Len(out) : \A a \in 1..Len(out[i].items) :
            LET l == out[i].items[a].items[1]
            IN  /\ l.t = "int"
                /\ l.n \in 0..(Len(columns.items) - 1)
                /\ i <= Len(kept)
                /\ \E j \in 1..Len(kept[i]) : columns.items[l.n + 1].s = kept[i][j].token

\* C3 as stated: with columns given and a string description, every returned
\* label is the position in columns of its token, and a token that columns
\* does not name makes the call fail with the lookup error.
C3_LookupErrorAlways ==
    (pc = "parsed" /\ description.t = "str" /\ columns # PyNone) =>
        LET tab == Readings(description)
        IN  /\ parsed.exc = "" => LabelsArePositions(tab, parsed.value.items)
            /\ (\E i \in 1..Len(tab) : \E j \in 1..Len(tab[i]) : ~tab[i][j].known)
                  => parsed = Raise("ValueError", "is not in list")

\* Factor j of product i names a label columns does not have, and no power met
\* before it stops the parser: none in an earlier factor of the product fails
\* to convert, none in an earlier product fails to convert or is not finite.
LookupComesFirst(tab, i, j) ==
    /\ ~tab[i][j].known
    /\ \A k \in 1..(j - 1) : tab[i][k].known /\ tab[i][k].converts
    /\ \A h \in 1..(i - 1) : \A k \in 1..Len(tab[h]) : tab[h][k].known /\ tab[h][k].finite

\* C3 as amended: the labels are positions in columns; a token that columns
\* does not name makes the call fail with a ValueError and no vector, and the
\* error is the lookup error whenever no power met before that token has
\* already failed the call.
C3_LookupError ==
    (pc = "parsed" /\ description.t = "str" /\ columns # PyNone) =>
        LET tab == Readings(description)
        IN  /\ parsed.exc = "" => LabelsArePositions(tab, parsed.value.items)
            /\ \A i \in 1..Len(tab) : \A j \in 1..Len(tab[i]) :
                  /\ ~tab[i][j].known =>
                        parsed.exc = "ValueError" /\ parsed.value = PyNone
                  /\ LookupComesFirst(tab, i, j) =>
                        parsed = Raise("ValueError", "is not in list")

\* A product resolves and is followed by a product whose second factor names
\* a label columns does not have: the lookup error.
C3_Witness ==
    /\ pc = "parsed"
    /\ description.t = "str"
    /\ columns # PyNone
    /\ LET tab == Readings(description)
       IN  /\ Len(tab) = 2
           /\ Len(tab[2]) = 2
           /\ LookupComesFirst(tab, 2, 2)
    /\ parsed = Raise("ValueError", "is not in list")

\* C4: a text description in which every factor is well formed and every
\* label of every product sums to zero fails with the validation error "no
\* valid terms provided"; a vector that is returned has at least one term.
C4_EmptyResultRejected ==
    /\ (pc = "parsed" /\ IsText(description))
          => LET tab == Readings(description)
             IN  (WellFormed(tab) /\ Retained(tab) = <<>>)
                    => parsed = Raise("ValueError", "no valid terms provided")
    /\ Returned => Len(parsed.value.items) >= 1

\* Two products, one of them a label times its inverse, all cancel: the parse
\* has failed with the validation error.
C4_Witness ==
    /\ pc = "parsed"
    /\ description.t = "str"
    /\ LET tab == Readings(description)
       IN  /\ WellFormed(tab)
           /\ Len(tab) = 2
           /\ \E i \in 1..2 : Len(tab[i]) = 2 /\ tab[i][1].power # 0
           /\ Retained(tab) = <<>>
    /\ parsed.exc = "ValueError"

\* C10: every vector the parser returns has no empty term and no factor of
\* power zero.
C10_TermInvariant ==
    Returned =>
        \A i \in 1..Len(parsed.value.items) :
            /\ Len(parsed.value.items[i].items) > 0
            /\ \A a \in 1..Len(parsed.value.items[i].items) :
                   NotZero(parsed.value.items[i].items[a].items[2])

-----------------------------------------------------------------------------
(* SpecValidate: calls of _is_structured_label_vector *)

\* What a candidate holds where a (label, power) pair is expected.
PairCandidates ==
    { PyTuple(<<PyStr(Teff), PyInt(1)>>),
      PyTuple(<<PyInt(0), PyFloat(2)>>),
      PyList(<<PyStr(feh), PyInt(0)>>),
      PyTuple(<<PyStr(Teff), PyStr(<<"2">>)>>),
      PyTuple(<<PyStr(Teff)>>),
      PyTuple(<<PyStr(Teff), PyInt(1), PyInt(1)>>),
      PyStr(Teff),
      PyInt(1) }

\* The most elements in a term of a candidate, and the most terms.
MaxPairs == 2

MaxTerms == 2

NotSequences == {PyStr(Teff), PyInt(1), PyNone}

SequencesOf(elements, longest) ==
    UNION { { PyList(xs) : xs \in [1..n -> elements] }
                \cup { PyTuple(xs) : xs \in [1..n -> elements] } : n \in 0..longest }

TermCandidates == SequencesOf(PairCandidates, MaxPairs) \cup NotSequences

InitValidate ==
    /\ pc = "start"
    /\ \/ \E n \in 0..MaxTerms : \E xs \in [1..n -> TermCandidates] :
             description \in {PyList(xs), PyTuple(xs)}
       \/ description \in NotSequences
    /\ columns = PyNone
    /\ structured = FALSE
    /\ parsed = NotCalled
    /\ reparsed = NotCalled
    /\ build_args = NoBuildArgs
    /\ built = NotCalled
    /\ self = NoVectorizer
    /\ labels_in = NoArray
    /\ label_vector = NotCalled

\* _is_structured_label_vector(description)
Validate ==
    /\ pc = "start"
    /\ structured' = is_structured_label_vector(description)
    /\ pc' = "validated"
    /\ UNCHANGED <<description, columns, parsed, reparsed, build_args, built,
                   self, labels_in, label_vector>>

NextValidate == Validate

SpecValidate == InitValidate /\ [][NextValidate]_vars

\* C8: the validator returns true exactly for a non-empty list or tuple of
\* terms, every term a non-empty list or tuple of pairs, every pair a list or
\* tuple of exactly 2 elements with an int or float power.
C8_ValidatorIff ==
    pc = "validated" =>
        structured =
            /\ IsListOrTuple(description)
            /\ Len(description.items) > 0
            /\ \A i \in 1..Len(description.items) :
                  LET term == description.items[i]
                  IN  /\ IsListOrTuple(term)
                      /\ Len(term.items) > 0
                      /\ \A j \in 1..Len(term.items) :
                            /\ IsListOrTuple(term.items[j])
                            /\ Len(term.items[j].items) = 2
                            /\ term.items[j].items[2].t \in {"int", "float"}

-----------------------------------------------------------------------------
(* build_label_vector *)

\* The names bound in the module's namespace: the imports, __all__, the class
\* and the three functions.
ModuleGlobals ==
    { "division", "print_function", "absolute_import", "unicode_literals",
      "__all__", "np", "Counter", "OrderedDict", "string_types", "BaseVectorizer",
      "PolynomialVectorizer", "_is_structured_label_vector",
      "parse_label_vector_description", "build_label_vector" }

\* ord(c), for the characters of the label names
Ord(c) ==
    CASE c = "T" -> 84 [] c = "b" -> 98 [] c = "e" -> 101 [] c = "f" -> 102
      [] c = "g" -> 103 [] c = "h" -> 104 [] c = "l" -> 108 [] c = "o" -> 111
      [] c = "s" -> 115 [] c = "u" -> 117

\* a < b for strings
RECURSIVE StrLess(_, _)
StrLess(a, b) ==
    IF b = <<>> THEN FALSE
    ELSE IF a = <<>> THEN TRUE
    ELSE IF Head(a) # Head(b) THEN Ord(Head(a)) < Ord(Head(b))
    ELSE StrLess(Tail(a), Tail(b))

\* sorted(keys)
RECURSIVE Sorted(_)
Sorted(keys) ==
    IF keys = {} THEN <<>>
    ELSE LET least == CHOOSE k \in keys : \A other \in keys \ {k} : StrLess(k, other)
         IN  <<least>> \o Sorted(keys \ {least})

\* str(p) for p >= 0
RECURSIVE Str(_)
Str(p) == IF p < 10 THEN <<Digits[p + 1]>> ELSE Str(p \div 10) \o <<Digits[(p % 10) + 1]>>

\* combinations_with_replacement(range(lo, n + 1), o), in the order itertools
\* yields them: the non-decreasing sequences of o positions
RECURSIVE CombinationsFrom(_, _, _)
CombinationsFrom(lo, n, o) ==
    IF o = 0 THEN << <<>> >>
    ELSE IF lo > n THEN <<>>
    ELSE LET tails == CombinationsFrom(lo, n, o - 1)
         IN  [i \in 1..Len(tails) |-> <<lo>> \o tails[i]] \o CombinationsFrom(lo + 1, n, o)

\* Counter of the labels at the positions of a combination: label -> count
Counter(labels, combination) ==
    [l \in { labels[combination[i]] : i \in 1..Len(combination) } |->
        Cardinality({ i \in 1..Len(combination) : labels[combination[i]] = l })]

MaxOf(nums) == CHOOSE m \in nums : \A k \in nums : k <= m

\* The test of one Counter t against order and cross_term_order.
Accepted(t, order, cross_term_order) ==
    \/ Cardinality(DOMAIN t) = 1 /\ order >= MaxOf({ t[l] : l \in DOMAIN t })
    \/ Cardinality(DOMAIN t) > 1 /\ cross_term_order >= MaxOf({ t[l] : l \in DOMAIN t })

\* mul.join(pow.join([l] or [l, str(p)]) for the keys of t in sorted order)
Rendered(t) ==
    LET keys == Sorted(DOMAIN t)
    IN  Join([i \in 1..Len(keys) |->
                IF t[keys[i]] > 1 THEN keys[i] \o <<pow>> \o Str(t[keys[i]]) ELSE keys[i]],
             <<mul>>)

\* The items appended for combinations of size o.
ItemsOfSize(labels, o, order, cross_term_order) ==
    LET combinations == CombinationsFrom(1, Len(labels), o)
        counters == [i \in 1..Len(combinations) |-> Counter(labels, combinations[i])]
        accepted == SelectSeq(counters, LAMBDA t : Accepted(t, order, cross_term_order))
    IN  [i \in 1..Len(accepted) |-> Rendered(accepted[i])]

\* The items appended for the sizes o, o + 1, ..., top.
RECURSIVE ItemsFromSize(_, _, _, _, _)
ItemsFromSize(labels, o, top, order, cross_term_order) ==
    IF o > top THEN <<>>
    ELSE ItemsOfSize(labels, o, order, cross_term_order)
            \o ItemsFromSize(labels, o + 1, top, order, cross_term_order)

\* build_label_vector(labels, order, cross_term_order).  The loop body looks
\* up combinations_with_replacement in the module's namespace, so the first
\* pass of a non-empty range raises NameError when the name is not bound.
build_label_vector(labels, order, cross_term_order) ==
    LET cto == IF 0 > cross_term_order THEN order - 1 ELSE cross_term_order
        top == IF order >= 1 + cto THEN order ELSE 1 + cto
    IN  IF top < 1 THEN Return(PyStr(<<>>))
        ELSE IF "combinations_with_replacement" \notin ModuleGlobals
             THEN Raise("NameError", "name 'combinations_with_replacement' is not defined")
        ELSE Return(PyStr(Join(ItemsFromSize(labels, 1, top, order, cto),
                               <<" ", sep, " ">>)))

-----------------------------------------------------------------------------
(* SpecBuild: build_label_vector, and its description parsed with
   columns=labels *)

LabelNames == {Teff, logg, feh}

\* The most labels given to the builder, and the largest order.
MaxLabels == 3

MaxOrder == 3

\* The labels as a list of str, as the parser takes its columns.
AsColumns(labels) == PyList([i \in 1..Len(labels) |-> PyStr(labels[i])])

InitBuild ==
    /\ pc = "start"
    /\ \E n \in 0..MaxLabels : \E labels \in [1..n -> LabelNames] :
       \E order \in 0..MaxOrder : \E cross_term_order \in (-1)..MaxOrder :
          build_args = [labels |-> labels, order |-> order,
                        cross_term_order |-> cross_term_order]
    /\ description = PyNone
    /\ columns = PyNone
    /\ structured = FALSE
    /\ parsed = NotCalled
    /\ reparsed = NotCalled
    /\ built = NotCalled
    /\ self = NoVectorizer
    /\ labels_in = NoArray
    /\ label_vector = NotCalled

\* build_label_vector(labels, order, cross_term_order)
Build ==
    /\ pc = "start"
    /\ built' = build_label_vector(build_args.labels, build_args.order,
                                   build_args.cross_term_order)
    /\ pc' = "built"
    /\ UNCHANGED <<description, columns, structured, parsed, reparsed, build_args,
                   self, labels_in, label_vector>>

\* parse_label_vector_description(<the description built>, columns=labels)
ParseBuilt ==
    /\ pc = "built"
    /\ built.exc = ""
    /\ description' = built.value
    /\ columns' = AsColumns(build_args.labels)
    /\ parsed' = parse_label_vector_description(built.value, AsColumns(build_args.labels))
    /\ pc' = "parsed"
    /\ UNCHANGED <<structured, reparsed, build_args, built, self, labels_in,
                   label_vector>>

NextBuild == Build \/ ParseBuilt

SpecBuild == InitBuild /\ [][NextBuild]_vars

Distinct(seq) == \A i, j \in 1..Len(seq) : i # j => seq[i] # seq[j]

\* The terms the claim allows, each the set of its (position, power) pairs:
\* one label to a power of 1..order, or several labels with powers of at most
\* cross_term_order and a total of at most max(order, 1 + cross_term_order).
AllowedTerms(n, order, cross_term_order) ==
    LET cto == IF cross_term_order < 0 THEN order - 1 ELSE cross_term_order
        top == IF order >= 1 + cto THEN order ELSE 1 + cto
        total(f, k) == LET RECURSIVE upto(_)
                           upto(i) == IF i = 0 THEN 0 ELSE f[i] + upto(i - 1)
                       IN  upto(k)
    IN  { {<<i - 1, p>>} : i \in 1..n, p \in 1..order }
            \cup { { <<i - 1, f[i]>> : i \in { k \in 1..n : f[k] > 0 } } :
                   f \in { g \in [1..n -> 0..(IF cto < 0 THEN 0 ELSE cto)] :
                             /\ Cardinality({ k \in 1..n : g[k] > 0 }) > 1
                             /\ total(g, n) <= top } }

\* A term of a parsed vector as the set of its (position, power) pairs.
AsPairs(term) == { <<term.items[a].items[1].n, term.items[a].items[2].n>> :
                     a \in 1..Len(term.items) }

\* C5: for distinct labels and an order of at least 1, the builder returns a
\* description, and that description parsed with columns=labels holds every
\* allowed term exactly once and nothing else.
C5_BuilderRoundTrip ==
    (Len(build_args.labels) > 0 /\ Distinct(build_args.labels) /\ build_args.order >= 1) =>
        /\ pc \in {"built", "parsed"} => built.exc = ""
        /\ pc = "parsed" =>
              /\ parsed.exc = ""
              /\ Distinct(parsed.value.items)
              /\ { AsPairs(parsed.value.items[i]) : i \in 1..Len(parsed.value.items) }
                    = AllowedTerms(Len(build_args.labels), build_args.order,
                                   build_args.cross_term_order)

\* The labels in order, each kept the first time it appears.
RECURSIVE WithoutDuplicates(_)
WithoutDuplicates(labels) ==
    IF labels = <<>> THEN <<>>
    ELSE LET front == WithoutDuplicates(SubSeq(labels, 1, Len(labels) - 1))
             last == labels[Len(labels)]
         IN  IF \E i \in 1..Len(front) : front[i] = last THEN front
             ELSE Append(front, last)

\* The terms a description is written with.
WrittenTerms(text) == StripAll(Split(text, sep))

\* C6: the description built from labels that hold a name more than once is
\* returned, has no term twice, and has the terms of the description built
\* from the labels with the repeats removed.
C6_DuplicateLabelsHarmless ==
    (pc = "built" /\ ~Distinct(build_args.labels)) =>
        LET plain == build_label_vector(WithoutDuplicates(build_args.labels),
                                        build_args.order, build_args.cross_term_order)
        IN  /\ built.exc = ""
            /\ plain.exc = ""
            /\ Distinct(WrittenTerms(built.value.s))
            /\ { WrittenTerms(built.value.s)[i] : i \in 1..Len(WrittenTerms(built.value.s)) }
                  = { WrittenTerms(plain.value.s)[i] :
                        i \in 1..Len(WrittenTerms(plain.value.s)) }

-----------------------------------------------------------------------------
(* PolynomialVectorizer *)

\* An array is [ndim, shape, data]; the data of a 1-d array is its row, the
\* data of a 2-d array the sequence of its rows.
Array1(row) == [ndim |-> 1, shape |-> <<Len(row)>>, data |-> row]

Array2(rows, k) == [ndim |-> 2, shape |-> <<Len(rows), k>>, data |-> rows]

\* labels.reshape((1, labels.size))
Reshape(labels) == Array2(<<labels.data>>, labels.shape[1])

\* numpy's broadcasting of an (N, k) array against a length-K vector
Broadcasts(k, K) == k = K \/ k = 1 \/ K = 1

\* The row indices an (N, ...) array accepts with the columns taken in their place
IndexInBoundsOfColumns(label, shape) ==
    label.t = "int" /\ label.n >= -shape[2] /\ label.n < shape[2]

\* scaled_labels[index]: indexing with one integer selects along the first
\* axis, the rows; anything but an integer in -N..N-1 raises IndexError.
IndexInBounds(label, shape) ==
    label.t = "int" /\ label.n >= -shape[1] /\ label.n < shape[1]

\* An array of floats that a call returns: the sequence of its rows.
NdArray(rows) == [t |-> "ndarray", n |-> 0, s |-> <<>>, items |-> rows]

\* The loop over self._parsed_terms, from term i on, with D terms in all and
\* an (N, k) array of scaled labels.  An empty term appends the column 1.0.
\* The first factor of a term is indexed and raised to its power, then
\* `raise a` looks up a name that is no local and is not in ModuleGlobals.
\* np.vstack is reached
\* when no term has a factor; it stacks the N ones with the 1.0 of every
\* term, which numpy accepts only for N = 1.
RECURSIVE TermLoop(_, _, _)
TermLoop(terms, i, shape) ==
    IF i > Len(terms)
    THEN IF Len(terms) = 0 \/ shape[1] = 1
         THEN Return(NdArray([r \in 1..(1 + Len(terms)) |->
                                 [c \in 1..shape[1] |-> PyFloat(1)]]))
         ELSE Raise("ValueError", "all the input array dimensions must match")
    ELSE IF Len(terms[i].items) = 0 THEN TermLoop(terms, i + 1, shape)
    ELSE IF ~IndexInBounds(terms[i].items[1].items[1], shape)
         THEN Raise("IndexError", "index is out of bounds or not an integer")
    ELSE Raise("NameError", "name 'a' is not defined")

\* PolynomialVectorizer.get_label_vector(labels)
get_label_vector(vectorizer, array) ==
    LET labels == IF array.ndim = 1 THEN Reshape(array) ELSE array
    IN  IF array.ndim > 2 THEN Raise("ValueError", "labels must be a 1-d or 2-d array")
        ELSE IF labels.ndim = 0 THEN Raise("IndexError", "tuple index out of range")
        ELSE IF ~( /\ Broadcasts(labels.shape[2], Len(vectorizer.fiducials))
                   /\ Broadcasts(IF labels.shape[2] = 1 THEN Len(vectorizer.fiducials)
                                 ELSE labels.shape[2], Len(vectorizer.scales)) )
             THEN Raise("ValueError", "operands could not be broadcast together")
        ELSE TermLoop(vectorizer.parsed_terms.value.items, 1,
                      <<labels.shape[1],
                        IF labels.shape[2] = 1 THEN Len(vectorizer.fiducials)
                        ELSE labels.shape[2]>>)

-----------------------------------------------------------------------------
(* SpecEval: a vectorizer is constructed and asked for label vectors *)

\* The terms a vectorizer is constructed with.
EvalTerms ==
    { PyStr(Teff),
      PyStr(<<" ">> \o logg \o <<" ">>),
      PyStr(Teff \o <<"^", "2", " ", "+", " ">> \o logg \o <<"*">> \o Teff),
      PyStr(feh \o <<"^", "0", "+">> \o logg \o <<"^", "2">>),
      PyStr(bogus \o <<"^", "2">>),
      PyStr(feh \o <<"^", "0">>),
      PyList(<<PyStr(logg), PyStr(Teff)>>),
      PyList(<<PyList(<<PyTuple(<<PyStr(Teff), PyInt(1)>>)>>)>>),
      PyList(<<PyList(<<>>), PyList(<<PyTuple(<<PyInt(0), PyInt(1)>>)>>)>>),
      PyList(<<PyList(<<PyTuple(<<PyInt(-1), PyFloat(2)>>)>>)>>) }

\* The most rows and the most values per row of a labels input.
MaxRows == 2

MaxCols == 3

LabelValues == {0, 3}

\* The labels inputs: a scalar, rows, batches of rows, and a 3-d array.
Arrays ==
    { [ndim |-> 0, shape |-> <<>>, data |-> <<3>>],
      [ndim |-> 3, shape |-> <<1, 1, 2>>, data |-> << << <<0, 3>> >> >>] }
        \cup UNION { { Array1(row) : row \in [1..k -> LabelValues] } : k \in 0..MaxCols }
        \cup UNION { { Array2(rows, k) : rows \in [1..n -> [1..k -> LabelValues]] } :
                     n \in 1..MaxRows, k \in 0..MaxCols }

\* The base class stores labels, fiducials, scales and terms on the object.
InitEval ==
    /\ pc = "start"
    /\ \E terms \in EvalTerms :
       \E fs \in { [fiducials |-> <<0, 0>>, scales |-> <<1, 1>>],
                   [fiducials |-> <<1, 2>>, scales |-> <<2, 4>>] } :
          self = [labels |-> PyList(<<PyStr(Teff), PyStr(logg)>>),
                  fiducials |-> fs.fiducials, scales |-> fs.scales,
                  terms |-> terms, parsed_terms |-> NotCalled]
    /\ description = PyNone
    /\ columns = PyNone
    /\ structured = FALSE
    /\ parsed = NotCalled
    /\ reparsed = NotCalled
    /\ build_args = NoBuildArgs
    /\ built = NotCalled
    /\ labels_in = NoArray
    /\ label_vector = NotCalled

\* PolynomialVectorizer.__init__: the terms are parsed with columns=labels;
\* when the parser raises, so does the constructor.
Construct ==
    /\ pc = "start"
    /\ LET terms == parse_label_vector_description(self.terms, self.labels)
       IN  /\ self' = [self EXCEPT !.parsed_terms = terms]
           /\ pc' = IF terms.exc = "" THEN "constructed" ELSE "failed"
    /\ UNCHANGED <<description, columns, structured, parsed, reparsed, build_args,
                   built, labels_in, label_vector>>

\* get_label_vector(labels) on the constructed object
GetLabelVector ==
    /\ pc = "constructed"
    /\ \E array \in Arrays :
          /\ labels_in' = array
          /\ label_vector' = get_label_vector(self, array)
    /\ pc' = "evaluated"
    /\ UNCHANGED <<description, columns, structured, parsed, reparsed, build_args,
                   built, self>>

NextEval == Construct \/ GetLabelVector

SpecEval == InitEval /\ [][NextEval]_vars

-----------------------------------------------------------------------------
(* Claims about get_label_vector *)

\* The rows of a 1-d or 2-d labels input.
RowsOf(array) == IF array.ndim = 1 THEN <<array.data>> ELSE array.data

RECURSIVE IntPow(_, _)
IntPow(b, e) == IF e = 0 THEN 1 ELSE b * IntPow(b, e - 1)

\* The numerator and the denominator of the product, over the factors of a
\* term, of ((row[index] - fiducials[index]) / scales[index]) ** power.
RECURSIVE TermNumerator(_, _, _)
TermNumerator(factors, row, fiducials) ==
    IF factors = <<>> THEN 1
    ELSE LET index == Head(factors).items[1].n + 1
         IN  IntPow(row[index] - fiducials[index], Head(factors).items[2].n)
                * TermNumerator(Tail(factors), row, fiducials)

RECURSIVE TermDenominator(_, _)
TermDenominator(factors, scales) ==
    IF factors = <<>> THEN 1
    ELSE IntPow(scales[Head(factors).items[1].n + 1], Head(factors).items[2].n)
            * TermDenominator(Tail(factors), scales)

\* C7: for a row of K values or a batch of N such rows, get_label_vector
\* returns N rows of 1 + D values; the first value of every row is 1 and the
\* value for term j is the product of its scaled labels raised to their powers.
C7_DesignMatrix ==
    (pc = "evaluated" /\ labels_in.ndim \in {1, 2}
        /\ labels_in.shape[labels_in.ndim] = Len(self.fiducials)) =>
        LET terms == self.parsed_terms.value.items
            rows == RowsOf(labels_in)
            matrix == label_vector.value.items
        IN  /\ label_vector.exc = ""
            /\ Len(matrix) = Len(rows)
            /\ \A r \in 1..Len(matrix) :
                  /\ Len(matrix[r]) = 1 + Len(terms)
                  /\ matrix[r][1].n = 1
                  /\ \A j \in 1..Len(terms) :
                        matrix[r][1 + j].n * TermDenominator(terms[j].items, self.scales)
                            = TermNumerator(terms[j].items, rows[r], self.fiducials)

FirstFactor(terms) ==
    terms[CHOOSE i \in 1..Len(terms) :
             /\ Len(terms[i].items) > 0
             /\ \A h \in 1..(i - 1) : Len(terms[h].items) = 0].items[1]

====
